---------------------------- MODULE Spec2Model ----------------------------
(***************************************************************************)
(* Model of server/ortools-service.py: the day's driver/route assignment   *)
(* solved as a 0/1 integer program (solve_driver_assignment), the input    *)
(* validator (validate_assignment_input), the hour ledger                  *)
(* (update_driver_hours) and the command-line operations of main().        *)
(*                                                                         *)
(* Numbers are integers here.  The weights of the objective are the        *)
(* fractions available_hours / total_remaining_hours; they are kept as     *)
(* numerator and denominator, so no rounding of the floating-point         *)
(* division is modelled.                                                   *)
(***************************************************************************)
EXTENDS Integers, Sequences, FiniteSets, TLC

VARIABLES pc,        \* which operation produced the current state
          data,      \* the parsed input object of the invocation
          engine,    \* how the optimization engine behaved in the last solve
          invoked,   \* TRUE iff the last solve reached pywraplp.Solver.CreateSolver
          valid,     \* the (is_valid, error_message) pair of the last validation
          result,    \* what the last operation returned, printed or raised
          solution,  \* the valuation of x the solver left behind
          ledger,    \* the driver list threaded through update_driver_hours
          prior,     \* the driver list given to the last update_driver_hours call
          applied    \* the assignments given to the last update_driver_hours call

vars == <<pc, data, engine, invoked, valid, result, solution, ledger, prior, applied>>

----------------------------------------------------------------------------
(* Bounds of the model *)

MaxDrivers == 2

MaxRoutes == 3

MaxHours == 2

MaxRecords == 2

MaxAssignments == 2

MaxLedgerHours == 3

----------------------------------------------------------------------------
(* Input domains *)

DriverNamePool == <<"A", "B", "C", "D">>

RouteNamePool == <<"R1", "R2", "R3", "R4", "R5">>

\* A driver name no driver of a ledger input carries.
UnknownDriver == "Z"

Hours == 0 .. MaxHours

\* -1 stands for every negative number.
AnyHours == -1 .. MaxHours

LedgerHours == 0 .. MaxLedgerHours

SeqsUpTo(S, n) == UNION {[1 .. k -> S] : k \in 0 .. n}

\* Names are only ever compared for equality: the elements of a list carry
\* pairwise different names, or (the validator does not object) all the same name.
NameAt(pool, k, same) == IF same THEN pool[1] ELSE pool[k]

Driver(n, h) == [form |-> "ok", name |-> n, available_hours |-> h]

Route(n, h) == [form |-> "ok", name |-> n, hours |-> h]

DriverList(hs, same) ==
    [k \in 1 .. Len(hs) |-> Driver(NameAt(DriverNamePool, k, same), hs[k])]

RouteList(hs, same) ==
    [k \in 1 .. Len(hs) |-> Route(NameAt(RouteNamePool, k, same), hs[k])]

\* List elements the validator rejects for their structure: not a JSON object,
\* an object without the two fields, a field that is not a number.
BadForms == {"not_object", "no_fields", "not_number"}

\* Inputs of main(): an element is well formed with any number of hours, or it
\* has one of the bad forms; a list holds at most one element the validator
\* rejects.
Elements ==
    {[form |-> "ok", h |-> h] : h \in AnyHours} \cup {[form |-> f, h |-> 0] : f \in BadForms}

Rejected(e) == e.form # "ok" \/ e.h < 0

ElementLists ==
    {es \in SeqsUpTo(Elements, MaxRecords) :
        Cardinality({k \in 1 .. Len(es) : Rejected(es[k])}) <= 1}

AnyDrivers ==
    {[k \in 1 .. Len(es) |->
        [form |-> es[k].form, name |-> DriverNamePool[k], available_hours |-> es[k].h]] :
        es \in ElementLists}

AnyRoutes ==
    {[k \in 1 .. Len(es) |->
        [form |-> es[k].form, name |-> RouteNamePool[k], hours |-> es[k].h]] :
        es \in ElementLists}

Data(s, d, r) == [shape |-> s, drivers |-> d, routes |-> r]

\* Payloads that are no JSON, or JSON but no object with two arrays.
BadShapes == {"not_json", "not_object", "missing_fields", "not_arrays"}

\* Assignment records given to the hour ledger; they may name unknown drivers and
\* name one driver more than once.
AnyAssignments ==
    {[k \in 1 .. Len(s) |-> [driver_name |-> s[k][1],
                              route_name |-> RouteNamePool[k],
                              route_hours |-> s[k][2]]] :
        s \in SeqsUpTo({DriverNamePool[1], DriverNamePool[2], UnknownDriver} \X LedgerHours,
                       MaxAssignments)}

LedgerDrivers ==
    {DriverList(hs, same) : hs \in SeqsUpTo(LedgerHours, MaxDrivers), same \in BOOLEAN}

----------------------------------------------------------------------------
(* Helpers *)

SetMax(S) == CHOOSE x \in S : \A y \in S : y <= x

SetMin(S) == CHOOSE x \in S : \A y \in S : x <= y

RECURSIVE SumFn(_, _)
SumFn(f, S) ==
    IF S = {} THEN 0
    ELSE LET e == CHOOSE e \in S : TRUE IN f[e] + SumFn(f, S \ {e})

Msg(t, a) == [template |-> t, args |-> a]

NoMsg == Msg("", <<>>)

\* Python's None in the assigned_route field.
None == "None"

----------------------------------------------------------------------------
(* validate_assignment_input *)

DriverProblem(driver, i) ==
    IF driver.form = "not_object" THEN Msg("Driver {i} must be an object", <<i>>)
    ELSE IF driver.form = "no_fields"
    THEN Msg("Driver {i} must have 'name' and 'available_hours' fields", <<i>>)
    ELSE IF driver.form = "not_number" \/ driver.available_hours < 0
    THEN Msg("Driver {i} 'available_hours' must be a non-negative number", <<i>>)
    ELSE NoMsg

RouteProblem(route, i) ==
    IF route.form = "not_object" THEN Msg("Route {i} must be an object", <<i>>)
    ELSE IF route.form = "no_fields"
    THEN Msg("Route {i} must have 'name' and 'hours' fields", <<i>>)
    ELSE IF route.form = "not_number" \/ route.hours < 0
    THEN Msg("Route {i} 'hours' must be a non-negative number", <<i>>)
    ELSE NoMsg

max_driver_hours(drivers) ==
    SetMax({drivers[i].available_hours : i \in 1 .. Len(drivers)})

min_route_hours(routes) ==
    SetMin({routes[j].hours : j \in 1 .. Len(routes)})

\* The pre-check with <= in place of <.
NoDriverCanHandle_NonStrict(drivers, routes) ==
    max_driver_hours(drivers) <= min_route_hours(routes)

NoDriverCanHandle(drivers, routes) ==
    max_driver_hours(drivers) < min_route_hours(routes)

validate_assignment_input(d) ==
    LET drivers == d.drivers
        routes == d.routes
        badDrivers == {i \in 1 .. Len(drivers) : DriverProblem(drivers[i], i - 1) # NoMsg}
        badRoutes == {i \in 1 .. Len(routes) : RouteProblem(routes[i], i - 1) # NoMsg}
    IN  IF d.shape = "not_object" THEN <<FALSE, Msg("Input must be a JSON object", <<>>)>>
        ELSE IF d.shape = "missing_fields"
        THEN <<FALSE, Msg("Input must contain 'drivers' and 'routes' fields", <<>>)>>
        ELSE IF d.shape = "not_arrays"
        THEN <<FALSE, Msg("Both 'drivers' and 'routes' must be arrays", <<>>)>>
        ELSE IF Len(drivers) = 0 THEN <<FALSE, Msg("At least one driver is required", <<>>)>>
        ELSE IF Len(routes) = 0 THEN <<FALSE, Msg("At least one route is required", <<>>)>>
        ELSE IF badDrivers # {}
        THEN <<FALSE, DriverProblem(drivers[SetMin(badDrivers)], SetMin(badDrivers) - 1)>>
        ELSE IF badRoutes # {}
        THEN <<FALSE, RouteProblem(routes[SetMin(badRoutes)], SetMin(badRoutes) - 1)>>
        ELSE IF NoDriverCanHandle(drivers, routes)
        THEN <<FALSE, Msg("No driver has enough hours ({max}) to handle the shortest route ({min})",
                          <<max_driver_hours(drivers), min_route_hours(routes)>>)>>
        ELSE <<TRUE, NoMsg>>

----------------------------------------------------------------------------
(* The integer program of solve_driver_assignment.                         *)
(* A valuation of the binary variables x[i, j] is kept as the function     *)
(* that gives, for each route j, the set of drivers i with x[i, j] = 1.    *)

DriverIdx(drivers) == 1 .. Len(drivers)

RouteIdx(routes) == 1 .. Len(routes)

X(x, i, j) == IF i \in x[j] THEN 1 ELSE 0

RoutesOf(x, i) == {j \in DOMAIN x : i \in x[j]}

\* Constraint 1: each route is assigned to exactly one driver.
RouteCovered(driversOfRoute) == Cardinality(driversOfRoute) = 1

\* Constraint 2 left out.
DriverCapacity_Omitted(x, i) == TRUE

\* Constraint 2: each driver is assigned to at most one route per day.
DriverCapacity(x, i) == Cardinality(RoutesOf(x, i)) <= 1

\* Constraint 3 left out.
HourBudget_Omitted(drivers, routes, x, i) == TRUE

\* Constraint 3: the driver's assigned hours do not exceed the remaining hours.
HourBudget(drivers, routes, x, i) ==
    SumFn([j \in RouteIdx(routes) |-> X(x, i, j) * routes[j].hours], RouteIdx(routes))
        <= drivers[i].available_hours

Feasible(drivers, routes) ==
    {x \in [RouteIdx(routes) -> {S \in SUBSET DriverIdx(drivers) : RouteCovered(S)}] :
        /\ \A i \in DriverIdx(drivers) : DriverCapacity(x, i)
        /\ \A i \in DriverIdx(drivers) : HourBudget(drivers, routes, x, i)}

total_remaining_hours(drivers) ==
    SumFn([i \in DriverIdx(drivers) |-> drivers[i].available_hours], DriverIdx(drivers))

\* The coefficient of x[i, j], as a fraction; all drivers share the denominator.
Weight(drivers, i) ==
    IF total_remaining_hours(drivers) > 0
    THEN [num |-> drivers[i].available_hours, den |-> total_remaining_hours(drivers)]
    ELSE [num |-> 1, den |-> 1]

ObjectiveValue(drivers, routes, x) ==
    [num |-> SumFn([i \in DriverIdx(drivers) |->
                       Cardinality(RoutesOf(x, i)) * Weight(drivers, i).num],
                   DriverIdx(drivers)),
     den |-> IF total_remaining_hours(drivers) > 0
             THEN total_remaining_hours(drivers) ELSE 1]

\* objective.SetMinimization() in place of SetMaximization().
Better_Minimizing(v, w) == v.num * w.den < w.num * v.den

\* objective.SetMaximization()
Better(v, w) == v.num * w.den > w.num * v.den

Optimal(drivers, routes) ==
    LET feasible == Feasible(drivers, routes)
        value == [x \in feasible |-> ObjectiveValue(drivers, routes, x)]
    IN  {x \in feasible : \A y \in feasible : ~Better(value[y], value[x])}

\* How the engine can behave: it proves an optimum or infeasibility, it cannot
\* be created, or its run ends in another state (FEASIBLE, UNBOUNDED, ABNORMAL,
\* NOT_SOLVED).
EngineModes == {"available", "unavailable", "abnormal"}

NoSolution(routes) == [j \in RouteIdx(routes) |-> {}]

\* solver.Solve(): the possible (status, valuation) pairs.
Solve(drivers, routes, eng) ==
    LET optimal == Optimal(drivers, routes)
    IN  IF eng = "abnormal" THEN {[status |-> "ABNORMAL", x |-> NoSolution(routes)]}
        \* a finite feasible set is empty exactly when it has no optimum
        ELSE IF optimal = {} THEN {[status |-> "INFEASIBLE", x |-> NoSolution(routes)]}
        ELSE {[status |-> "OPTIMAL", x |-> x] : x \in optimal}

----------------------------------------------------------------------------
(* solve_driver_assignment: building the result from the solver's answer *)

\* The (i, j) pairs in the order of the two nested loops.
LoopOrder(drivers, routes) ==
    [k \in 1 .. Len(drivers) * Len(routes) |->
        <<((k - 1) \div Len(routes)) + 1, ((k - 1) % Len(routes)) + 1>>]

\* x[i, j].solution_value() > 0.5
IsOne(x, i, j) == 2 * X(x, i, j) > 1

Assignment(drivers, routes, i, j) ==
    [driver_name |-> drivers[i].name,
     route_name |-> routes[j].name,
     route_hours |-> routes[j].hours]

Assignments(drivers, routes, x) ==
    LET chosen == SelectSeq(LoopOrder(drivers, routes), LAMBDA p : IsOne(x, p[1], p[2]))
    IN  [k \in 1 .. Len(chosen) |-> Assignment(drivers, routes, chosen[k][1], chosen[k][2])]

\* driver_assignments[i]: the entry as initialised, overwritten by each route j
\* of the inner loop that the driver holds, so the last one stays.
DriverStatus(drivers, routes, x, i) ==
    LET held == {j \in RouteIdx(routes) : IsOne(x, i, j)}
    IN  IF held = {}
        THEN [name |-> drivers[i].name, assigned_route |-> None, assigned_hours |-> 0,
              remaining_hours |-> drivers[i].available_hours]
        ELSE [name |-> drivers[i].name,
              assigned_route |-> routes[SetMax(held)].name,
              assigned_hours |-> routes[SetMax(held)].hours,
              remaining_hours |-> drivers[i].available_hours - routes[SetMax(held)].hours]

\* "in" in place of "not in".
UnassignedRoutes_Inverted(routes, assignments) ==
    LET assigned_routes == {assignments[k].route_name : k \in 1 .. Len(assignments)}
        left == SelectSeq(routes, LAMBDA route : route.name \in assigned_routes)
    IN  [k \in 1 .. Len(left) |-> left[k].name]

UnassignedRoutes(routes, assignments) ==
    LET assigned_routes == {assignments[k].route_name : k \in 1 .. Len(assignments)}
        left == SelectSeq(routes, LAMBDA route : route.name \notin assigned_routes)
    IN  [k \in 1 .. Len(left) |-> left[k].name]

OptimalResult(drivers, routes, x) ==
    LET assignments == Assignments(drivers, routes, x)
        unassigned_routes == UnassignedRoutes(routes, assignments)
    IN  [status |-> "optimal",
         assignments |-> assignments,
         driver_status |-> [i \in DriverIdx(drivers) |-> DriverStatus(drivers, routes, x, i)],
         unassigned_routes |-> unassigned_routes,
         statistics |->
            [total_routes |-> Len(routes),
             routes_assigned |-> Len(assignments),
             routes_unassigned |-> Len(unassigned_routes),
             total_hours_assigned |->
                SumFn([k \in 1 .. Len(assignments) |-> assignments[k].route_hours],
                      1 .. Len(assignments)),
             drivers_working |-> Len(assignments),
             drivers_available |-> Len(drivers)],
         objective_value |-> ObjectiveValue(drivers, routes, x)]

InfeasibleResult ==
    [status |-> "infeasible", message |-> Msg("No feasible solution found", <<>>)]

SolverFailedResult ==
    [status |-> "error", message |-> Msg("Solver failed to find a solution", <<>>)]

Raised(exception, text) ==
    [status |-> "raised", exception |-> exception, message |-> Msg(text, <<>>)]

\* What a call can come to: the value returned or the exception raised,
\* whether it reached CreateSolver, and the valuation the solver left in x.
Outcome(response, reached, x) == [response |-> response, invoked |-> reached, x |-> x]

solve_driver_assignment(d, eng) ==
    IF Len(d.drivers) = 0 \/ Len(d.routes) = 0
    THEN {Outcome(Raised("ValueError", "Both drivers and routes must be provided"),
                  FALSE, NoSolution(d.routes))}
    ELSE IF eng = "unavailable"
    THEN {Outcome(Raised("RuntimeError", "SCIP solver unavailable"),
                  TRUE, NoSolution(d.routes))}
    ELSE {Outcome(IF s.status = "OPTIMAL" THEN OptimalResult(d.drivers, d.routes, s.x)
                  ELSE IF s.status = "INFEASIBLE" THEN InfeasibleResult
                  ELSE SolverFailedResult, TRUE, s.x) :
            s \in Solve(d.drivers, d.routes, eng)}

----------------------------------------------------------------------------
(* update_driver_hours *)

\* assignment_map.get(name, 0): later assignments overwrite earlier ones.
AssignedHours(assignments, name) ==
    LET named == {k \in 1 .. Len(assignments) : assignments[k].driver_name = name}
    IN  IF named = {} THEN 0 ELSE assignments[SetMax(named)].route_hours

\* The subtraction without max(0, ...).
FloorAtZero_Missing(h) == h

FloorAtZero(h) == IF h > 0 THEN h ELSE 0

update_driver_hours(drivers, assignments) ==
    [i \in 1 .. Len(drivers) |->
        [drivers[i] EXCEPT !.available_hours =
            FloorAtZero(drivers[i].available_hours
                          - AssignedHours(assignments, drivers[i].name))]]

\* The caller's list after the call: every record is copied before it is changed.
DriversAfterCall(drivers, assignments) == drivers

----------------------------------------------------------------------------
(* main(): the operations "solve_assignment" and "validate" *)

InvalidJson == [status |-> "text", text |-> "Error: Invalid JSON input"]

ErrorResponse(message) == [status |-> "error", message |-> message]

\* No handler: the exception leaves main().
Caught_Nothing(o) == o

\* except Exception as e: the exception becomes an error response.
Caught(o) ==
    IF o.response.status = "raised"
    THEN [o EXCEPT !.response = ErrorResponse(o.response.message)]
    ELSE o

main_solve_assignment(d, eng) ==
    IF d.shape = "not_json" THEN {Outcome(InvalidJson, FALSE, NoSolution(d.routes))}
    ELSE IF ~validate_assignment_input(d)[1]
    THEN {Outcome(ErrorResponse(validate_assignment_input(d)[2]), FALSE, NoSolution(d.routes))}
    ELSE {Caught(o) : o \in solve_driver_assignment(d, eng)}

main_validate(d) ==
    IF d.shape = "not_json" THEN InvalidJson
    ELSE [status |-> "validated",
          valid |-> validate_assignment_input(d)[1],
          message |-> validate_assignment_input(d)[2]]

----------------------------------------------------------------------------
(* State machines *)

NoResult == [status |-> "none"]

NotValidated == <<FALSE, Msg("not validated", <<>>)>>

InitCommon ==
    /\ pc = "input"
    /\ engine = "available"
    /\ invoked = FALSE
    /\ valid = NotValidated
    /\ result = NoResult
    /\ solution = <<>>
    /\ prior = <<>>
    /\ applied = <<>>

\* The validator and the solver called, one after the other, on one day's
\* input; the solver is called whatever the validator answered.
Init ==
    /\ InitCommon
    /\ \E dh \in SeqsUpTo(Hours, MaxDrivers), rh \in SeqsUpTo(Hours, MaxRoutes),
          same \in BOOLEAN :
          data = Data("ok", DriverList(dh, same), RouteList(rh, same))
    /\ ledger = <<>>

ValidateCall ==
    /\ pc = "input"
    /\ pc' = "validated"
    /\ valid' = validate_assignment_input(data)
    /\ UNCHANGED <<data, engine, invoked, result, solution, ledger, prior, applied>>

SolveCall ==
    /\ pc = "validated"
    /\ \E eng \in EngineModes :
         \E o \in solve_driver_assignment(data, eng) :
            /\ engine' = eng
            /\ invoked' = o.invoked
            /\ result' = o.response
            /\ solution' = o.x
    /\ pc' = "solved"
    /\ UNCHANGED <<data, valid, ledger, prior, applied>>

Next == ValidateCall \/ SolveCall

Spec == Init /\ [][Next]_vars

\* The command-line operations on any payload.
InitMain ==
    /\ InitCommon
    /\ data \in {Data("ok", d, r) : d \in AnyDrivers, r \in AnyRoutes}
                \cup {Data(s, <<>>, <<>>) : s \in BadShapes}
    /\ ledger = <<>>

MainSolveAssignment ==
    /\ pc = "input"
    /\ \E eng \in EngineModes :
         \E o \in main_solve_assignment(data, eng) :
            /\ engine' = eng
            /\ invoked' = o.invoked
            /\ result' = o.response
            /\ solution' = o.x
    /\ pc' = "solved"
    /\ UNCHANGED <<data, valid, ledger, prior, applied>>

MainValidate ==
    /\ pc = "input"
    /\ pc' = "validated"
    /\ result' = main_validate(data)
    /\ UNCHANGED <<data, engine, invoked, valid, solution, ledger, prior, applied>>

NextMain == MainSolveAssignment \/ MainValidate

SpecMain == InitMain /\ [][NextMain]_vars

\* The hour ledger, each output threaded into the next call.
InitLedger ==
    /\ InitCommon
    /\ data = Data("ok", <<>>, <<>>)
    /\ ledger \in LedgerDrivers

\* The first call of a day, with that day's assignments.
UpdateDriverHours ==
    /\ pc = "input"
    /\ \E assignments \in AnyAssignments :
         /\ ledger' = update_driver_hours(ledger, assignments)
         /\ prior' = DriversAfterCall(ledger, assignments)
         /\ applied' = assignments
    /\ pc' = "updated"
    /\ UNCHANGED <<data, engine, invoked, valid, result, solution>>

\* A further call on the previous call's output with the same assignments.
UpdateDriverHoursAgain ==
    /\ pc \in {"updated", "repeated"}
    /\ ledger' = update_driver_hours(ledger, applied)
    /\ prior' = DriversAfterCall(ledger, applied)
    /\ pc' = "repeated"
    /\ UNCHANGED <<data, engine, invoked, valid, result, solution, applied>>

NextLedger == UpdateDriverHours \/ UpdateDriverHoursAgain

SpecLedger == InitLedger /\ [][NextLedger]_vars

----------------------------------------------------------------------------
(* Properties of solve_driver_assignment and validate_assignment_input,    *)
(* checked under Spec                                                      *)

drivers == data.drivers

routes == data.routes

Solved == pc = "solved"

\* The engine did its work: it was created and proved an optimum or infeasibility.
EngineWorked == engine = "available"

IsOptimal == Solved /\ result.status = "optimal"

Injective(m) == Cardinality({m[j] : j \in DOMAIN m}) = Cardinality(DOMAIN m)

\* The assignments of all routes to different drivers that respect the hours.
Matchings ==
    {m \in [RouteIdx(routes) -> DriverIdx(drivers)] :
        /\ Injective(m)
        /\ \A j \in RouteIdx(routes) : routes[j].hours <= drivers[m[j]].available_hours}

NamesOf(seq, field) == {seq[k][field] : k \in 1 .. Len(seq)}

\* The input respects the data model: no two drivers and no two routes share a name.
DistinctNames ==
    /\ Cardinality(NamesOf(drivers, "name")) = Len(drivers)
    /\ Cardinality(NamesOf(routes, "name")) = Len(routes)

\* C1: with a working engine and non-empty drivers and routes, the status is
\* 'infeasible' exactly when no assignment gives every route one driver, every
\* driver at most one route and no driver more hours than available; when one
\* exists the status is 'optimal' and no route is left unassigned.  More routes
\* than drivers, or a route longer than every driver's hours, is 'infeasible'.
C1_InfeasibleIffNoAssignment ==
    (Solved /\ EngineWorked /\ Len(drivers) > 0 /\ Len(routes) > 0) =>
        /\ (result.status = "infeasible") <=> (Matchings = {})
        /\ Matchings # {} =>
             (result.status = "optimal" /\ result.unassigned_routes = <<>>
              /\ Len(result.assignments) = Len(routes))
        /\ Len(routes) > Len(drivers) => result.status = "infeasible"
        /\ (\E j \in RouteIdx(routes) :
              \A i \in DriverIdx(drivers) : routes[j].hours > drivers[i].available_hours)
             => result.status = "infeasible"

\* Two drivers with hours to spare cannot cover three routes.
C1_Witness ==
    /\ DistinctNames
    /\ Solved /\ EngineWorked
    /\ Len(drivers) = 2 /\ Len(routes) = 3
    /\ \A i \in DriverIdx(drivers), j \in RouteIdx(routes) :
          drivers[i].available_hours = routes[j].hours /\ routes[j].hours > 0
    /\ result.status = "infeasible"

\* C2: in an 'optimal' result for an input the validator accepts, no driver
\* name and no route name occurs in two assignments.
C2_NamesOccurOnce ==
    (IsOptimal /\ valid[1]) =>
        \A a, b \in 1 .. Len(result.assignments) :
            a # b => /\ result.assignments[a].driver_name # result.assignments[b].driver_name
                     /\ result.assignments[a].route_name # result.assignments[b].route_name

\* C3: in an 'optimal' result every assignment's route_hours is at most the
\* available_hours of the driver it was given to, and no driver_status entry
\* has negative remaining_hours.
C3_HoursWithinBudget ==
    IsOptimal =>
        /\ \A i \in DriverIdx(drivers), j \in RouteIdx(routes) :
              IsOne(solution, i, j) => routes[j].hours <= drivers[i].available_hours
        /\ \A k \in 1 .. Len(result.assignments) :
              \E i \in DriverIdx(drivers), j \in RouteIdx(routes) :
                 /\ IsOne(solution, i, j)
                 /\ result.assignments[k] = Assignment(drivers, routes, i, j)
                 /\ result.assignments[k].route_hours <= drivers[i].available_hours
        /\ \A i \in 1 .. Len(result.driver_status) :
              result.driver_status[i].remaining_hours >= 0

\* A driver with fewer hours than another stays idle and the route goes to the
\* driver it just fits.
C3_Witness ==
    /\ DistinctNames
    /\ IsOptimal
    /\ Len(drivers) = 2
    /\ \E i \in DriverIdx(drivers) :
          /\ result.driver_status[i].assigned_route # None
          /\ result.driver_status[i].assigned_hours > 0
          /\ result.driver_status[i].remaining_hours = 0
          /\ \E o \in DriverIdx(drivers) :
                drivers[o].available_hours < result.driver_status[i].assigned_hours

\* C4: in an 'optimal' result unassigned_routes and the route names of the
\* assignments are disjoint, together they are all input route names, and
\* routes_assigned + routes_unassigned = total_routes.
C4_RoutesPartitioned ==
    IsOptimal =>
        /\ NamesOf(result.assignments, "route_name")
              \cap {result.unassigned_routes[k] : k \in 1 .. Len(result.unassigned_routes)} = {}
        /\ NamesOf(result.assignments, "route_name")
              \cup {result.unassigned_routes[k] : k \in 1 .. Len(result.unassigned_routes)}
              = NamesOf(routes, "name")
        /\ result.statistics.routes_assigned + result.statistics.routes_unassigned
              = result.statistics.total_routes

C4_Witness ==
    /\ DistinctNames
    /\ IsOptimal
    /\ Len(routes) = 2
    /\ routes[1].hours < routes[2].hours
    /\ result.statistics.routes_assigned = 2

\* C5: for non-empty lists of well-formed drivers and routes the validator
\* answers (False, message) exactly when the largest available_hours is below
\* the smallest route hours, and (True, "") otherwise; an input rejected for
\* that reason never solves to 'optimal'.
C5_PreCheck ==
    (pc \in {"validated", "solved"} /\ Len(drivers) > 0 /\ Len(routes) > 0) =>
        /\ (\A i \in DriverIdx(drivers), j \in RouteIdx(routes) :
               drivers[i].available_hours < routes[j].hours)
             => (valid[1] = FALSE /\ valid[2] # NoMsg)
        /\ (\E i \in DriverIdx(drivers), j \in RouteIdx(routes) :
               drivers[i].available_hours >= routes[j].hours)
             => valid = <<TRUE, NoMsg>>
        /\ (Solved /\ ~valid[1]) => result.status # "optimal"

\* The pre-check is not sufficient: an accepted input that is infeasible.
C5_Witness ==
    /\ DistinctNames
    /\ Solved /\ EngineWorked
    /\ valid = <<TRUE, NoMsg>>
    /\ result.status = "infeasible"
    /\ Len(routes) <= Len(drivers)
    /\ \A j \in RouteIdx(routes) : routes[j].hours > 0

\* C8: in an 'optimal' result driver_status has one entry per input driver, in
\* input order, each recomputable from the driver and the assignments:
\* the route assigned to that driver and its hours (none and 0 without one),
\* and remaining_hours = available_hours - assigned_hours, which is what
\* update_driver_hours(drivers, assignments) leaves that driver.
C8_DriverStatusRecomputable ==
    IsOptimal =>
        /\ Len(result.driver_status) = Len(drivers)
        /\ \A i \in DriverIdx(drivers) :
              LET st == result.driver_status[i]
                  mine == {k \in 1 .. Len(result.assignments) :
                              result.assignments[k].driver_name = drivers[i].name}
              IN  /\ st.name = drivers[i].name
                  /\ mine = {} => (st.assigned_route = None /\ st.assigned_hours = 0)
                  /\ mine # {} =>
                        \E k \in mine :
                           /\ st.assigned_route = result.assignments[k].route_name
                           /\ st.assigned_hours = result.assignments[k].route_hours
                  /\ st.remaining_hours = drivers[i].available_hours - st.assigned_hours
                  /\ st.remaining_hours =
                        update_driver_hours(drivers, result.assignments)[i].available_hours

AvailOf(S) == SumFn([i \in DriverIdx(drivers) |-> drivers[i].available_hours], S)

UsedBy(x) == {i \in DriverIdx(drivers) : \E j \in DOMAIN x : i \in x[j]}

\* C10: an 'optimal' result maximizes the sum of the weights
\* available_hours / total available_hours (1 when the total is zero) of the
\* assigned drivers over all assignments that meet the three constraints: no
\* such assignment uses drivers with more available_hours in total; and
\* objective_value is that sum for the returned assignment.
C10_MaximizesWeights ==
    IsOptimal =>
        /\ \A m \in Matchings :
              AvailOf({m[j] : j \in RouteIdx(routes)}) <= AvailOf(UsedBy(solution))
        /\ IF AvailOf(DriverIdx(drivers)) > 0
           THEN result.objective_value.num * AvailOf(DriverIdx(drivers))
                   = AvailOf(UsedBy(solution)) * result.objective_value.den
           ELSE result.objective_value.num
                   = Len(result.assignments) * result.objective_value.den

\* Either driver could take the route; the one with more hours gets it.
C10_Witness ==
    /\ DistinctNames
    /\ IsOptimal
    /\ Len(drivers) = 2 /\ Len(routes) = 1
    /\ routes[1].hours > 0
    /\ \A i \in DriverIdx(drivers) : routes[1].hours <= drivers[i].available_hours
    /\ drivers[1].available_hours < drivers[2].available_hours
    /\ result.driver_status[2].assigned_route = routes[1].name
    /\ result.driver_status[1].assigned_route = None

----------------------------------------------------------------------------
(* Properties of main()'s solve_assignment operation, checked under SpecMain *)

Accepted == data.shape # "not_json" /\ validate_assignment_input(data)[1]

\* C9: the solve operation on a parsed payload reports 'infeasible' only when
\* the engine proved that no assignment meets the constraints; an input the
\* validator rejects (the solver is then never invoked), empty drivers or
\* routes, an unavailable engine and an engine run that ends neither optimal
\* nor infeasible are each reported as status 'error' with a message, and
\* nothing is left uncaught.
C9_FailuresReportedAsError ==
    (Solved /\ data.shape # "not_json") =>
        /\ result.status \in {"optimal", "infeasible", "error"}
        /\ result.status = "infeasible" =>
              (Accepted /\ invoked /\ engine = "available" /\ Matchings = {})
        /\ ~Accepted =>
              /\ result.status = "error"
              /\ result.message = validate_assignment_input(data)[2]
              /\ result.message # NoMsg
              /\ ~invoked
        /\ (Len(drivers) = 0 \/ Len(routes) = 0) => (result.status = "error" /\ ~invoked)
        /\ (Accepted /\ engine # "available") =>
              (result.status = "error" /\ result.message # NoMsg /\ invoked)

\* A valid input, a feasible one, and an engine that cannot be created.
C9_Witness ==
    /\ Solved /\ Accepted
    /\ Matchings # {}
    /\ engine = "unavailable"
    /\ invoked
    /\ result.status = "error"
    /\ result.message = Msg("SCIP solver unavailable", <<>>)

----------------------------------------------------------------------------
(* Properties of update_driver_hours, checked under SpecLedger *)

Updated == pc \in {"updated", "repeated"}

NamedBy(name) == {k \in 1 .. Len(applied) : applied[k].driver_name = name}

\* The hours of all routes that the assignments give to the driver name.
TotalAssigned(name) == SumFn([k \in 1 .. Len(applied) |-> applied[k].route_hours], NamedBy(name))

\* C6: update_driver_hours returns a list of the same length, order and names
\* in which each driver has max(0, old available_hours - hours of the routes
\* assigned to that driver name), 0 being subtracted for a driver no
\* assignment names; assignments naming no driver change nothing, and the
\* input list is left as it was.
C6_SubtractsAssignedHours ==
    Updated =>
        /\ Len(ledger) = Len(prior)
        /\ \A i \in 1 .. Len(prior) :
              /\ ledger[i].name = prior[i].name
              /\ ledger[i].available_hours =
                    FloorAtZero(prior[i].available_hours - TotalAssigned(prior[i].name))

\* C7: an empty assignment list leaves the drivers unchanged; no call raises a
\* driver's available_hours or takes it below zero, and hours that are zero
\* stay zero; a second call with the same assignments takes the route hours
\* again from an assigned driver that has hours left.
C7_HoursOnlyDecrease ==
    Updated =>
        /\ applied = <<>> => ledger = prior
        /\ Len(ledger) = Len(prior)
        /\ \A i \in 1 .. Len(prior) :
              /\ ledger[i].available_hours >= 0
              /\ ledger[i].available_hours <= prior[i].available_hours
              /\ prior[i].available_hours = 0 => ledger[i].available_hours = 0
              /\ (/\ pc = "repeated"
                  /\ prior[i].available_hours > 0
                  /\ \E k \in 1 .. Len(applied) :
                        /\ NamedBy(prior[i].name) = {k}
                        /\ applied[k].route_hours > 0)
                    => /\ ledger[i].available_hours < prior[i].available_hours
                       /\ \E k \in NamedBy(prior[i].name) :
                             ledger[i].available_hours =
                                FloorAtZero(prior[i].available_hours - applied[k].route_hours)

\* The second call with the same assignments finds fewer hours left than the
\* route takes and floors them at zero.
C7_Witness ==
    /\ pc = "repeated"
    /\ \E i \in 1 .. Len(prior) :
          \E k \in 1 .. Len(applied) :
             /\ NamedBy(prior[i].name) = {k}
             /\ prior[i].available_hours > 0
             /\ prior[i].available_hours < applied[k].route_hours
             /\ ledger[i].available_hours = 0

=============================================================================
